---- MODULE Spec2Model ----
(***************************************************************************)
(* Model of src/src/App.jsx: the log analyser component.                   *)
(*                                                                         *)
(* Text that the code transforms (headers, cell values) is a sequence of   *)
(* one-character strings, so that trim() and toLowerCase() are computed.   *)
(* Text that the code only stores and compares (messages, block labels,    *)
(* file names) is a TLA+ string; '' is "".                                 *)
(***************************************************************************)
EXTENDS Integers, Sequences, FiniteSets, TLC

VARIABLES
    \* React state of App (lines 4-7)
    logData, fileName, papaLoaded, errorMessage,
    \* the <script> element of the mount effect (lines 10-43)
    script,
    \* Papa.parse calls that have not called back yet (lines 54-71)
    inFlight,
    \* bookkeeping: number of tokenizations started; the tokenization whose
    \* callback last wrote logData / errorMessage (0: an event handler); the
    \* tokenization started by the latest upload event (0: it started none)
    \* and what became of it
    latestGen, logDataGen, errorGen, lastAttempt, outcome,
    \* the rows last handed to Papa.unparse (lines 160-166), <<>> before
    csvData,
    \* one invocation of processLogData (lines 82-150)
    pc, headers, data, processedFailureBlocks,
    currentBlockStartTime, currentBlockEndTime, currentDate,
    dateIndex, timeIndex, statusIndex, rowIdx,
    \* bookkeeping: number of invocations on these rows, and what the first
    \* one passed to setLogData and setErrorMessage
    calls, firstResult

uiVars == <<logData, fileName, papaLoaded, errorMessage, script, inFlight,
            latestGen, logDataGen, errorGen, lastAttempt, outcome, csvData>>
passVars == <<pc, headers, data, processedFailureBlocks,
              currentBlockStartTime, currentBlockEndTime, currentDate,
              dateIndex, timeIndex, statusIndex, rowIdx, calls, firstResult>>
vars == <<logData, fileName, papaLoaded, errorMessage, script, inFlight,
          latestGen, logDataGen, errorGen, lastAttempt, outcome, csvData,
          pc, headers, data, processedFailureBlocks,
          currentBlockStartTime, currentBlockEndTime, currentDate,
          dateIndex, timeIndex, statusIndex, rowIdx, calls, firstResult>>

(***************************************************************************)
(* Bounds                                                                  *)
(***************************************************************************)
MaxRows == 3
MaxHeaders == 3
MaxUploads == 3
MaxInFlight == 2

(***************************************************************************)
(* JavaScript strings                                                      *)
(***************************************************************************)
Range(s) == {s[i] : i \in 1..Len(s)}

UpperChars == <<"A","B","C","D","E","F","G","H","I","J","K","L","M",
                "N","O","P","Q","R","S","T","U","V","W","X","Y","Z">>
LowerChars == <<"a","b","c","d","e","f","g","h","i","j","k","l","m",
                "n","o","p","q","r","s","t","u","v","w","x","y","z">>
WhiteSpace == {" ", "\t", "\n", "\r"}

\* String.prototype.toLowerCase
toLowerCase(s) ==
    [i \in 1..Len(s) |->
        IF \E k \in 1..Len(UpperChars) : UpperChars[k] = s[i]
        THEN LowerChars[CHOOSE k \in 1..Len(UpperChars) : UpperChars[k] = s[i]]
        ELSE s[i]]

\* String.prototype.trim
trim(s) ==
    LET inner == {i \in 1..Len(s) : s[i] \notin WhiteSpace}
    IN  IF inner = {} THEN <<>>
        ELSE LET lo == CHOOSE i \in inner : \A j \in inner : i <= j
                 hi == CHOOSE i \in inner : \A j \in inner : j <= i
             IN  SubSeq(s, lo, hi)

\* null, distinct from every string
null == <<"null">>

sdate == <<"d","a","t","e">>
stime == <<"t","i","m","e">>
sstatus == <<"s","t","a","t","u","s">>
sfailure == <<"f","a","i","l","u","r","e">>
sdash == <<"-">>

(***************************************************************************)
(* Messages and labels                                                     *)
(***************************************************************************)
MsgMissingColumns == "CSV must contain \"Date\", \"Time\", and \"Status\" columns in its header."
MsgNoFailures == "No failure blocks found in the uploaded file."
MsgParseErrorPrefix == "Error parsing file: "
MsgParseFailed == "Failed to parse CSV file. Please ensure it is a valid CSV."
MsgStillLoading == "PapaParse library is still loading. Please try uploading the file again in a moment."
MsgLoadFailed == "Failed to load PapaParse. Please check your internet connection."
LabelBlock == "Failure Block"
LabelNoTrailingOK == "Failure Block (No trailing OK)"

(***************************************************************************)
(* processLogData, as operators                                            *)
(***************************************************************************)
\* findIndex comparing the lower-cased header without trimming it
findIndex_NoTrim(hs, name) ==
    LET hit == {i \in 1..Len(hs) : toLowerCase(hs[i]) = name}
    IN  IF hit = {} THEN -1
        ELSE (CHOOSE i \in hit : \A j \in hit : i <= j) - 1

\* Array.prototype.findIndex with the predicate of lines 89-91 (0-based, -1)
findIndex(hs, name) ==
    LET hit == {i \in 1..Len(hs) : trim(toLowerCase(hs[i])) = name}
    IN  IF hit = {} THEN -1
        ELSE (CHOOSE i \in hit : \A j \in hit : i <= j) - 1

\* hs[idx] of a 0-based index
headerAt(hs, idx) == hs[idx + 1]

\* row[key] ? ... : ...   (a missing key is undefined, '' is falsy)
truthy(row, key) == key \in DOMAIN row /\ row[key] # <<>>

\* lines 102-103 with '' for '-'
cellOrDash_NoPlaceholder(row, key) ==
    IF truthy(row, key) THEN trim(row[key]) ELSE <<>>

\* lines 102-103: row[key] ? String(row[key]).trim() : '-'
cellOrDash(row, key) == IF truthy(row, key) THEN trim(row[key]) ELSE sdash

\* line 104 without toLowerCase()
cellStatus_NoLowerCase(row, key) ==
    IF truthy(row, key) THEN trim(row[key]) ELSE <<>>

\* line 104: row[key] ? String(row[key]).trim().toLowerCase() : ''
cellStatus(row, key) == IF truthy(row, key) THEN toLowerCase(trim(row[key])) ELSE <<>>

\* the accumulator of the pass (lines 83-86)
emptyPass ==
    [processedFailureBlocks |-> <<>>, currentBlockStartTime |-> null,
     currentBlockEndTime |-> null, currentDate |-> null]

\* the forEach callback pushing on every non-failure row (no test of line 115)
rowTransition_NoOpenCheck(st, row, hs, di, ti, si) ==
    LET date == cellOrDash(row, headerAt(hs, di))
        time == cellOrDash(row, headerAt(hs, ti))
        status == cellStatus(row, headerAt(hs, si))
    IN  IF status = sfailure
        THEN [st EXCEPT
                !.currentBlockStartTime =
                    IF st.currentBlockStartTime = null THEN time ELSE @,
                !.currentDate =
                    IF st.currentBlockStartTime = null THEN date ELSE @,
                !.currentBlockEndTime = time]
        ELSE [processedFailureBlocks |->
                  Append(st.processedFailureBlocks,
                         [status |-> LabelBlock,
                          date |-> st.currentDate,
                          startTime |-> st.currentBlockStartTime,
                          endTime |-> st.currentBlockEndTime]),
              currentBlockStartTime |-> null,
              currentBlockEndTime |-> null,
              currentDate |-> null]

\* the forEach callback setting the start time on every failure row (no
\* test of line 109)
rowTransition_StartOverwritten(st, row, hs, di, ti, si) ==
    LET date == cellOrDash(row, headerAt(hs, di))
        time == cellOrDash(row, headerAt(hs, ti))
        status == cellStatus(row, headerAt(hs, si))
    IN  IF status = sfailure
        THEN [st EXCEPT
                !.currentBlockStartTime = time,
                !.currentDate = date,
                !.currentBlockEndTime = time]
        ELSE IF st.currentBlockStartTime # null
             THEN [processedFailureBlocks |->
                       Append(st.processedFailureBlocks,
                              [status |-> LabelBlock,
                               date |-> st.currentDate,
                               startTime |-> st.currentBlockStartTime,
                               endTime |-> st.currentBlockEndTime]),
                   currentBlockStartTime |-> null,
                   currentBlockEndTime |-> null,
                   currentDate |-> null]
             ELSE st

\* the forEach callback taking the last pushed block back when a failure
\* row follows it
rowTransition_ReopensLast(st, row, hs, di, ti, si) ==
    LET date == cellOrDash(row, headerAt(hs, di))
        time == cellOrDash(row, headerAt(hs, ti))
        status == cellStatus(row, headerAt(hs, si))
        n == Len(st.processedFailureBlocks)
    IN  IF status = sfailure
        THEN IF st.currentBlockStartTime = null /\ n > 0
             THEN [processedFailureBlocks |->
                       SubSeq(st.processedFailureBlocks, 1, n - 1),
                   currentBlockStartTime |->
                       st.processedFailureBlocks[n].startTime,
                   currentBlockEndTime |-> time,
                   currentDate |-> st.processedFailureBlocks[n].date]
             ELSE [st EXCEPT
                     !.currentBlockStartTime =
                         IF st.currentBlockStartTime = null THEN time ELSE @,
                     !.currentDate =
                         IF st.currentBlockStartTime = null THEN date ELSE @,
                     !.currentBlockEndTime = time]
        ELSE IF st.currentBlockStartTime # null
             THEN [processedFailureBlocks |->
                       Append(st.processedFailureBlocks,
                              [status |-> LabelBlock,
                               date |-> st.currentDate,
                               startTime |-> st.currentBlockStartTime,
                               endTime |-> st.currentBlockEndTime]),
                   currentBlockStartTime |-> null,
                   currentBlockEndTime |-> null,
                   currentDate |-> null]
             ELSE st

\* the forEach callback without the reset of line 126
rowTransition_DateNotReset(st, row, hs, di, ti, si) ==
    LET date == cellOrDash(row, headerAt(hs, di))
        time == cellOrDash(row, headerAt(hs, ti))
        status == cellStatus(row, headerAt(hs, si))
    IN  IF status = sfailure
        THEN [st EXCEPT
                !.currentBlockStartTime =
                    IF st.currentBlockStartTime = null THEN time ELSE @,
                !.currentDate =
                    IF st.currentBlockStartTime = null THEN date ELSE @,
                !.currentBlockEndTime = time]
        ELSE IF st.currentBlockStartTime # null
             THEN [processedFailureBlocks |->
                       Append(st.processedFailureBlocks,
                              [status |-> LabelBlock,
                               date |-> st.currentDate,
                               startTime |-> st.currentBlockStartTime,
                               endTime |-> st.currentBlockEndTime]),
                   currentBlockStartTime |-> null,
                   currentBlockEndTime |-> null,
                   currentDate |-> st.currentDate]
             ELSE st

\* the forEach callback closing the open block when the date changes
rowTransition_SplitOnDate(st, row, hs, di, ti, si) ==
    LET date == cellOrDash(row, headerAt(hs, di))
        time == cellOrDash(row, headerAt(hs, ti))
        status == cellStatus(row, headerAt(hs, si))
    IN  IF status = sfailure
        THEN IF st.currentBlockStartTime = null
             THEN [st EXCEPT !.currentBlockStartTime = time,
                             !.currentDate = date,
                             !.currentBlockEndTime = time]
             ELSE IF st.currentDate # date
             THEN [processedFailureBlocks |->
                       Append(st.processedFailureBlocks,
                              [status |-> LabelBlock,
                               date |-> st.currentDate,
                               startTime |-> st.currentBlockStartTime,
                               endTime |-> st.currentBlockEndTime]),
                   currentBlockStartTime |-> time,
                   currentBlockEndTime |-> time,
                   currentDate |-> date]
             ELSE [st EXCEPT !.currentBlockEndTime = time]
        ELSE IF st.currentBlockStartTime # null
             THEN [processedFailureBlocks |->
                       Append(st.processedFailureBlocks,
                              [status |-> LabelBlock,
                               date |-> st.currentDate,
                               startTime |-> st.currentBlockStartTime,
                               endTime |-> st.currentBlockEndTime]),
                   currentBlockStartTime |-> null,
                   currentBlockEndTime |-> null,
                   currentDate |-> null]
             ELSE st

\* the forEach callback (lines 100-129)
rowTransition(st, row, hs, di, ti, si) ==
    LET date == cellOrDash(row, headerAt(hs, di))
        time == cellOrDash(row, headerAt(hs, ti))
        status == cellStatus(row, headerAt(hs, si))
    IN  IF status = sfailure
        THEN [st EXCEPT
                !.currentBlockStartTime =
                    IF st.currentBlockStartTime = null THEN time ELSE @,
                !.currentDate =
                    IF st.currentBlockStartTime = null THEN date ELSE @,
                !.currentBlockEndTime = time]
        ELSE IF st.currentBlockStartTime # null
             THEN [processedFailureBlocks |->
                       Append(st.processedFailureBlocks,
                              [status |-> LabelBlock,
                               date |-> st.currentDate,
                               startTime |-> st.currentBlockStartTime,
                               endTime |-> st.currentBlockEndTime]),
                   currentBlockStartTime |-> null,
                   currentBlockEndTime |-> null,
                   currentDate |-> null]
             ELSE st

\* the check after the loop pushing the label of line 118
endOfInput_SameLabel(st) ==
    IF st.currentBlockStartTime # null
    THEN [st EXCEPT !.processedFailureBlocks =
             Append(@, [status |-> LabelBlock,
                        date |-> st.currentDate,
                        startTime |-> st.currentBlockStartTime,
                        endTime |-> st.currentBlockEndTime])]
    ELSE st

\* the check after the loop (lines 132-139)
endOfInput(st) ==
    IF st.currentBlockStartTime # null
    THEN [st EXCEPT !.processedFailureBlocks =
             Append(@, [status |-> LabelNoTrailingOK,
                        date |-> st.currentDate,
                        startTime |-> st.currentBlockStartTime,
                        endTime |-> st.currentBlockEndTime])]
    ELSE st

\* line 94 with && for ||
missingColumns_All(di, ti, si) == di = -1 /\ ti = -1 /\ si = -1

\* line 94
missingColumns(di, ti, si) == di = -1 \/ ti = -1 \/ si = -1

\* lines 144-148: the message set after setLogData; fname is the fileName of
\* the render whose handler started the tokenization
messageAfter(blocks, fname) ==
    IF Len(blocks) = 0 /\ fname # "" THEN MsgNoFailures ELSE ""

RECURSIVE forEachRow(_, _, _, _, _, _, _)
\* data.forEach from row k on (lines 100-129)
forEachRow(st, rows, k, hs, di, ti, si) ==
    IF k > Len(rows) THEN st
    ELSE forEachRow(rowTransition(st, rows[k], hs, di, ti, si),
                    rows, k + 1, hs, di, ti, si)

\* one whole call: the values it passes to setLogData and setErrorMessage
processLogData(rows, hs, fname) ==
    LET di == findIndex(hs, sdate)
        ti == findIndex(hs, stime)
        si == findIndex(hs, sstatus)
    IN  IF missingColumns(di, ti, si)
        THEN [logData |-> <<>>, errorMessage |-> MsgMissingColumns]
        ELSE LET st == endOfInput(forEachRow(emptyPass, rows, 1, hs, di, ti, si))
             IN  [logData |-> st.processedFailureBlocks,
                  errorMessage |-> messageAfter(st.processedFailureBlocks, fname)]

(***************************************************************************)
(* Inputs of one call of processLogData                                    *)
(***************************************************************************)
SeqsUpTo(S, n) == UNION {[1..k -> S] : k \in 0..n}

\* header spellings for the column resolution
HeaderPool ==
    { sdate, <<" ","D","a","t","e"," ">>, <<"D","A","T","E">>,
      stime, <<"T","i","m","e"," ">>,
      sstatus, <<" ","S","T","A","T","U","S">>,
      <<"i","d">> }

\* header rows whose rows are enumerated; the keys name the column that
\* holds each logical field of the generated rows
KH1 ==
    [headers |-> << <<"D","a","t","e">>, <<"T","i","m","e">>,
                    <<"S","t","a","t","u","s">> >>,
     dateKey |-> <<"D","a","t","e">>, timeKey |-> <<"T","i","m","e">>,
     statusKey |-> <<"S","t","a","t","u","s">>]
KH2 ==
    [headers |-> << <<" ","S","T","A","T","U","S">>, <<"i","d">>,
                    <<"t","i","m","e">>, <<"D","A","T","E"," ">> >>,
     dateKey |-> <<"D","A","T","E"," ">>, timeKey |-> <<"t","i","m","e">>,
     statusKey |-> <<" ","S","T","A","T","U","S">>]
KH3 ==
    [headers |-> << <<"D","a","t","e">>, <<"T","i","m","e">>,
                    <<"S","t","a","t","e">> >>,
     dateKey |-> <<"D","a","t","e">>, timeKey |-> <<"T","i","m","e">>,
     statusKey |-> <<"S","t","a","t","e">>]
\* cell values <<date, time, status>> of the generated rows
FailureCells ==
    { << <<"d","1">>, <<"1">>, <<" ","F","a","i","l","u","r","e"," ">> >>,
      << <<>>, <<" ","2">>, <<" ","F","a","i","l","u","r","e"," ">> >>,
      << <<"d","1">>, <<>>, <<" ","F","a","i","l","u","r","e"," ">> >>,
      << <<"d","2"," ">>, <<"3">>, <<"F","A","I","L","U","R","E">> >> }
OtherCells ==
    { << <<"d","1">>, <<"1">>, <<"O","K">> >>,
      << <<>>, <<" ","2">>, <<>> >>,
      << <<"d","2"," ">>, <<"3">>, <<"f","a","i","l","e","d">> >> }

\* the object Papa builds for one line under header row hk
MkRow(hk, c) ==
    [k \in Range(hk.headers) |->
        IF k = hk.dateKey THEN c[1]
        ELSE IF k = hk.timeKey THEN c[2]
        ELSE IF k = hk.statusKey THEN c[3]
        ELSE <<"7">>]

\* the generated rows, and an object without any of the keys
RowsOf(hk) == {MkRow(hk, c) : c \in FailureCells \cup OtherCells} \cup { <<>> }

PassInputs ==
    {[headers |-> h, data |-> <<>>] : h \in SeqsUpTo(HeaderPool, MaxHeaders)}
    \cup UNION {{[headers |-> hk.headers, data |-> d] :
                    d \in SeqsUpTo(RowsOf(hk), MaxRows)} : hk \in {KH1, KH2}}
    \cup {[headers |-> KH3.headers, data |-> d] :
                    d \in SeqsUpTo(RowsOf(KH3), 1)}

\* a block left on screen by an earlier callback
OldBlock ==
    [status |-> LabelBlock, date |-> <<"d","0">>,
     startTime |-> <<"0">>, endTime |-> <<"0">>]

\* what the component shows, and the fileName the callback closes over,
\* when processLogData is entered
PassEntry ==
    { [logData |-> <<>>, errorMessage |-> "", fileName |-> ""],
      [logData |-> <<>>, errorMessage |-> "", fileName |-> "a.csv"],
      [logData |-> <<OldBlock>>, errorMessage |-> MsgParseFailed,
       fileName |-> "a.csv"] }

(***************************************************************************)
(* One call of processLogData, statement by statement                      *)
(***************************************************************************)
InitPass ==
    /\ \E e \in PassEntry :
          /\ logData = e.logData
          /\ errorMessage = e.errorMessage
          /\ fileName = e.fileName
    /\ \E in \in PassInputs : headers = in.headers /\ data = in.data
    /\ papaLoaded = TRUE
    /\ script = "loaded"
    /\ inFlight = {}
    /\ latestGen = 0
    /\ logDataGen = 0
    /\ errorGen = 0
    /\ outcome = "none"
    /\ lastAttempt = 0
    /\ pc = "resolve"
    /\ processedFailureBlocks = emptyPass.processedFailureBlocks
    /\ currentBlockStartTime = emptyPass.currentBlockStartTime
    /\ currentBlockEndTime = emptyPass.currentBlockEndTime
    /\ currentDate = emptyPass.currentDate
    /\ dateIndex = -1
    /\ timeIndex = -1
    /\ statusIndex = -1
    /\ rowIdx = 1
    /\ csvData = <<>>
    /\ calls = 1
    /\ firstResult = [logData |-> <<>>, errorMessage |-> ""]

passState ==
    [processedFailureBlocks |-> processedFailureBlocks,
     currentBlockStartTime |-> currentBlockStartTime,
     currentBlockEndTime |-> currentBlockEndTime,
     currentDate |-> currentDate]

setPassState(st) ==
    /\ processedFailureBlocks' = st.processedFailureBlocks
    /\ currentBlockStartTime' = st.currentBlockStartTime
    /\ currentBlockEndTime' = st.currentBlockEndTime
    /\ currentDate' = st.currentDate

\* lines 89-91
ResolveColumns ==
    /\ pc = "resolve"
    /\ dateIndex' = findIndex(headers, sdate)
    /\ timeIndex' = findIndex(headers, stime)
    /\ statusIndex' = findIndex(headers, sstatus)
    /\ pc' = "validate"
    /\ UNCHANGED <<uiVars, headers, data, processedFailureBlocks,
                   currentBlockStartTime, currentBlockEndTime, currentDate,
                   rowIdx>>
    /\ UNCHANGED <<calls, firstResult>>

\* lines 94-98
ValidateHeaders ==
    /\ pc = "validate"
    /\ IF missingColumns(dateIndex, timeIndex, statusIndex)
       THEN /\ errorMessage' = MsgMissingColumns
            /\ logData' = <<>>
            /\ pc' = "done"
       ELSE /\ pc' = "forEach"
            /\ UNCHANGED <<logData, errorMessage>>
    /\ UNCHANGED <<fileName, papaLoaded, script, inFlight, latestGen,
                   logDataGen, errorGen, lastAttempt, outcome, headers, data,
                   processedFailureBlocks, currentBlockStartTime,
                   currentBlockEndTime, currentDate,
                   dateIndex, timeIndex, statusIndex, rowIdx>>
    /\ UNCHANGED <<csvData, calls, firstResult>>

\* lines 100-129, one row
ProcessRow ==
    /\ pc = "forEach"
    /\ rowIdx <= Len(data)
    /\ setPassState(rowTransition(passState, data[rowIdx], headers,
                                  dateIndex, timeIndex, statusIndex))
    /\ rowIdx' = rowIdx + 1
    /\ UNCHANGED <<uiVars, pc, headers, data,
                   dateIndex, timeIndex, statusIndex>>
    /\ UNCHANGED <<calls, firstResult>>

\* lines 132-139
EndOfInput ==
    /\ pc = "forEach"
    /\ rowIdx > Len(data)
    /\ setPassState(endOfInput(passState))
    /\ pc' = "update"
    /\ UNCHANGED <<uiVars, headers, data,
                   dateIndex, timeIndex, statusIndex, rowIdx>>
    /\ UNCHANGED <<calls, firstResult>>

\* lines 142-148
UpdateState ==
    /\ pc = "update"
    /\ logData' = processedFailureBlocks
    /\ errorMessage' = messageAfter(processedFailureBlocks, fileName)
    /\ pc' = "done"
    /\ UNCHANGED <<fileName, papaLoaded, script, inFlight, latestGen,
                   logDataGen, errorGen, lastAttempt, outcome, headers, data,
                   processedFailureBlocks, currentBlockStartTime,
                   currentBlockEndTime, currentDate,
                   dateIndex, timeIndex, statusIndex, rowIdx>>
    /\ UNCHANGED <<csvData, calls, firstResult>>

\* locals that keep what the previous invocation left in them
localsAtEntry_Kept(prev) == prev

\* lines 83-86: the locals of a new invocation, whatever the previous
\* invocation left in its own
localsAtEntry(prev) == emptyPass

\* line 65 once more: a later upload of the same rows calls processLogData
\* again; by then a file name is set, and the component still shows what
\* the first call has left
CallAgain ==
    /\ pc = "done"
    /\ calls = 1
    /\ calls' = 2
    /\ firstResult' = [logData |-> logData, errorMessage |-> errorMessage]
    /\ fileName' = "a.csv"
    /\ setPassState(localsAtEntry(passState))
    /\ pc' = "resolve"
    /\ rowIdx' = 1
    /\ UNCHANGED <<logData, errorMessage, papaLoaded, script, inFlight,
                   latestGen, logDataGen, errorGen, lastAttempt, outcome,
                   csvData, headers, data, dateIndex, timeIndex, statusIndex>>

\* lines 160-163 with the end time before the start time
exportRows_TimesSwapped(blocks) ==
    << <<"Status", "date", "Start Time", "End Time">> >> \o
    [i \in 1..Len(blocks) |->
        <<blocks[i].status, blocks[i].date, blocks[i].endTime,
          blocks[i].startTime>>]

\* lines 160-163: the header row, then one row per block
exportRows(blocks) ==
    << <<"Status", "date", "Start Time", "End Time">> >> \o
    [i \in 1..Len(blocks) |->
        <<blocks[i].status, blocks[i].date, blocks[i].startTime,
          blocks[i].endTime>>]

\* lines 153-166; the button exists while logData is not empty (line 218),
\* and a click is handled when no call of processLogData is running
HandleDownloadCsv ==
    /\ pc \in {"idle", "done"}
    /\ Len(logData) > 0
    /\ csvData' = exportRows(logData)
    /\ UNCHANGED <<logData, fileName, papaLoaded, errorMessage, script,
                   inFlight, latestGen, logDataGen, errorGen, lastAttempt,
                   outcome, passVars>>

NextPass ==
    \/ ResolveColumns
    \/ ValidateHeaders
    \/ ProcessRow
    \/ EndOfInput
    \/ UpdateState
    \/ HandleDownloadCsv
    \/ CallAgain

SpecPass == InitPass /\ [][NextPass]_vars

\* the stepwise call and the operator processLogData agree
PassAgrees ==
    pc = "done" =>
        LET r == processLogData(data, headers, fileName)
        IN  logData = r.logData /\ errorMessage = r.errorMessage

(***************************************************************************)
(* The component: uploads and tokenizer callbacks                          *)
(***************************************************************************)
cFail == <<" ","F","a","i","l","u","r","e"," ">>
cOK == <<"O","K">>

\* the files the user can select: what Papa.parse will report for each
\* (result.data, result.meta.fields, result.errors, or the error callback)
Files ==
    { [name |-> "a.csv", readable |-> TRUE, errors |-> <<>>,
       headers |-> KH1.headers,
       data |-> << MkRow(KH1, << <<"d","1">>, <<"1">>, cFail >>),
                   MkRow(KH1, << <<"d","1">>, <<" ","2">>, cFail >>),
                   MkRow(KH1, << <<"d","1">>, <<"3">>, cOK >>) >>],
      [name |-> "b.csv", readable |-> TRUE, errors |-> <<>>,
       headers |-> KH2.headers,
       data |-> << MkRow(KH2, << <<"d","2">>, <<"1">>, cOK >>),
                   MkRow(KH2, << <<"d","2">>, <<"3">>, <<>> >>) >>],
      [name |-> "c.csv", readable |-> TRUE, errors |-> <<>>,
       headers |-> KH3.headers,
       data |-> << MkRow(KH3, << <<"d","3">>, <<"1">>, cFail >>) >>],
      [name |-> "d.csv", readable |-> TRUE,
       errors |-> << [message |-> "Too few fields"] >>,
       headers |-> KH1.headers,
       data |-> << MkRow(KH1, << <<"d","4">>, <<"1">>, cFail >>) >>],
      [name |-> "e.csv", readable |-> FALSE, errors |-> <<>>,
       headers |-> <<>>, data |-> <<>>] }

\* event.target.files[0] of a dialog closed without a file
NoFile == [name |-> ""]

FileNamed(n) == CHOOSE f \in Files : f.name = n

Init ==
    /\ logData = <<>>
    /\ fileName = ""
    /\ papaLoaded = FALSE
    /\ errorMessage = ""
    /\ script = "mount"
    /\ inFlight = {}
    /\ latestGen = 0
    /\ logDataGen = 0
    /\ errorGen = 0
    /\ outcome = "none"
    /\ lastAttempt = 0
    /\ pc = "idle"
    /\ headers = <<>>
    /\ data = <<>>
    /\ processedFailureBlocks = <<>>
    /\ currentBlockStartTime = null
    /\ currentBlockEndTime = null
    /\ currentDate = null
    /\ dateIndex = -1
    /\ timeIndex = -1
    /\ statusIndex = -1
    /\ rowIdx = 1
    /\ csvData = <<>>
    /\ calls = 0
    /\ firstResult = [logData |-> <<>>, errorMessage |-> ""]

\* lines 12-15: the effect finds window.Papa
EffectPapaPresent ==
    /\ script = "mount"
    /\ papaLoaded' = TRUE
    /\ script' = "present"
    /\ UNCHANGED <<logData, fileName, errorMessage, inFlight, latestGen,
                   logDataGen, errorGen, lastAttempt, outcome, passVars>>
    /\ UNCHANGED csvData

\* lines 18-35: the effect appends the script element
EffectAppendScript ==
    /\ script = "mount"
    /\ script' = "loading"
    /\ UNCHANGED <<logData, fileName, papaLoaded, errorMessage, inFlight,
                   latestGen, logDataGen, errorGen, lastAttempt, outcome,
                   passVars>>
    /\ UNCHANGED csvData

\* lines 23-26
ScriptOnload ==
    /\ script = "loading"
    /\ papaLoaded' = TRUE
    /\ script' = "loaded"
    /\ UNCHANGED <<logData, fileName, errorMessage, inFlight, latestGen,
                   logDataGen, errorGen, lastAttempt, outcome, passVars>>
    /\ UNCHANGED csvData

\* lines 29-32
ScriptOnerror ==
    /\ script = "loading"
    /\ errorMessage' = MsgLoadFailed
    /\ errorGen' = 0
    /\ script' = "failed"
    /\ UNCHANGED <<logData, fileName, papaLoaded, inFlight, latestGen,
                   logDataGen, lastAttempt, outcome, passVars>>
    /\ UNCHANGED csvData

\* handleFileUpload parsing whenever a file is selected (no papaLoaded in
\* the test of line 52)
handleFileUpload_NoReadyCheck(file) ==
    /\ script # "mount"
    /\ logData' = <<>>
    /\ logDataGen' = 0
    /\ errorGen' = 0
    /\ IF file # NoFile
       THEN /\ latestGen < MaxUploads
            /\ Cardinality(inFlight) < MaxInFlight
            /\ errorMessage' = ""
            /\ fileName' = file.name
            /\ latestGen' = latestGen + 1
            /\ inFlight' = inFlight \cup
                   {[gen |-> latestGen + 1, file |-> file.name,
                     fileName |-> fileName]}
            /\ lastAttempt' = latestGen + 1
            /\ outcome' = "pending"
       ELSE /\ errorMessage' = ""
            /\ fileName' = ""
            /\ lastAttempt' = 0
            /\ outcome' = "none"
            /\ UNCHANGED <<latestGen, inFlight>>
    /\ UNCHANGED <<papaLoaded, script, passVars>>
    /\ UNCHANGED csvData

\* handleFileUpload without line 48
handleFileUpload_KeepsError(file) ==
    /\ script # "mount"
    /\ logData' = <<>>
    /\ logDataGen' = 0
    /\ IF file # NoFile /\ papaLoaded
       THEN /\ latestGen < MaxUploads
            /\ Cardinality(inFlight) < MaxInFlight
            /\ UNCHANGED <<errorMessage, errorGen>>
            /\ fileName' = file.name
            /\ latestGen' = latestGen + 1
            /\ inFlight' = inFlight \cup
                   {[gen |-> latestGen + 1, file |-> file.name,
                     fileName |-> fileName]}
            /\ lastAttempt' = latestGen + 1
            /\ outcome' = "pending"
       ELSE IF file # NoFile /\ ~papaLoaded
       THEN /\ errorMessage' = MsgStillLoading
            /\ errorGen' = 0
            /\ lastAttempt' = 0
            /\ outcome' = "none"
            /\ UNCHANGED <<fileName, latestGen, inFlight>>
       ELSE /\ UNCHANGED <<errorMessage, errorGen>>
            /\ fileName' = ""
            /\ lastAttempt' = 0
            /\ outcome' = "none"
            /\ UNCHANGED <<latestGen, inFlight>>
    /\ UNCHANGED <<papaLoaded, script, passVars>>
    /\ UNCHANGED csvData

\* lines 46-79; the effect of the first render has run before any event
handleFileUpload(file) ==
    /\ script # "mount"
    /\ logData' = <<>>
    /\ logDataGen' = 0
    /\ errorGen' = 0
    /\ IF file # NoFile /\ papaLoaded
       THEN /\ latestGen < MaxUploads
            /\ Cardinality(inFlight) < MaxInFlight
            /\ errorMessage' = ""
            /\ fileName' = file.name
            /\ latestGen' = latestGen + 1
            /\ inFlight' = inFlight \cup
                   {[gen |-> latestGen + 1, file |-> file.name,
                     fileName |-> fileName]}
            /\ lastAttempt' = latestGen + 1
            /\ outcome' = "pending"
       ELSE IF file # NoFile /\ ~papaLoaded
       THEN /\ errorMessage' = MsgStillLoading
            /\ lastAttempt' = 0
            /\ outcome' = "none"
            /\ UNCHANGED <<fileName, latestGen, inFlight>>
       ELSE /\ errorMessage' = ""
            /\ fileName' = ""
            /\ lastAttempt' = 0
            /\ outcome' = "none"
            /\ UNCHANGED <<latestGen, inFlight>>
    /\ UNCHANGED <<papaLoaded, script, passVars>>
    /\ UNCHANGED csvData

\* what became of a call of processLogData
outcomeOf(r) ==
    IF r.errorMessage = MsgMissingColumns THEN "missing"
    ELSE IF r.logData = <<>> THEN "zero" ELSE "blocks"

\* lines 57-66: the complete callback of tokenization t
papaComplete(t) ==
    /\ t \in inFlight
    /\ FileNamed(t.file).readable
    /\ inFlight' = inFlight \ {t}
    /\ IF Len(FileNamed(t.file).errors) > 0
       THEN /\ errorMessage' =
                  MsgParseErrorPrefix \o FileNamed(t.file).errors[1].message
            /\ errorGen' = t.gen
            /\ outcome' = IF t.gen = lastAttempt THEN "parseError" ELSE outcome
            /\ UNCHANGED <<logData, logDataGen>>
       ELSE LET r == processLogData(FileNamed(t.file).data,
                                    FileNamed(t.file).headers, t.fileName)
            IN  /\ logData' = r.logData
                /\ errorMessage' = r.errorMessage
                /\ logDataGen' = t.gen
                /\ errorGen' = t.gen
                /\ outcome' = IF t.gen = lastAttempt THEN outcomeOf(r)
                              ELSE outcome
    /\ UNCHANGED <<fileName, papaLoaded, script, latestGen, lastAttempt,
                   passVars>>
    /\ UNCHANGED csvData

\* lines 67-70: the error callback of tokenization t
papaError(t) ==
    /\ t \in inFlight
    /\ ~FileNamed(t.file).readable
    /\ inFlight' = inFlight \ {t}
    /\ errorMessage' = MsgParseFailed
    /\ errorGen' = t.gen
    /\ outcome' = IF t.gen = lastAttempt THEN "parseError" ELSE outcome
    /\ UNCHANGED <<logData, logDataGen, fileName, papaLoaded, script,
                   latestGen, lastAttempt, passVars>>
    /\ UNCHANGED csvData

HandleFileUpload == \E file \in Files \cup {NoFile} : handleFileUpload(file)
PapaComplete == \E t \in inFlight : papaComplete(t)
PapaError == \E t \in inFlight : papaError(t)

Next ==
    \/ EffectPapaPresent
    \/ EffectAppendScript
    \/ ScriptOnload
    \/ ScriptOnerror
    \/ HandleFileUpload
    \/ PapaComplete
    \/ PapaError
    \/ HandleDownloadCsv

Spec == Init /\ [][Next]_vars

(***************************************************************************)
(* What the render shows                                                   *)
(***************************************************************************)
\* lines 212-216
errorShown == errorMessage # ""

\* lines 251-255
emptyResultParagraphShown == Len(logData) = 0 /\ fileName # "" /\ errorMessage = ""

(***************************************************************************)
(* The rows of the call, as the properties below speak of them             *)
(***************************************************************************)
\* the spellings among the generated cells that read "failure"
FailureSpellings ==
    { <<" ","F","a","i","l","u","r","e"," ">>, <<"F","A","I","L","U","R","E">> }

Resolvable == dateIndex # -1 /\ timeIndex # -1 /\ statusIndex # -1

IsFailureRow(i) ==
    LET key == headerAt(headers, statusIndex)
    IN  key \in DOMAIN data[i] /\ data[i][key] \in FailureSpellings

TimeOfRow(i) == cellOrDash(data[i], headerAt(headers, timeIndex))
DateOfRow(i) == cellOrDash(data[i], headerAt(headers, dateIndex))

\* first rows of the maximal runs of consecutive failure rows
RunStarts ==
    {i \in 1..Len(data) : IsFailureRow(i) /\ (i = 1 \/ ~IsFailureRow(i - 1))}

\* last row of the run that starts at row s
RunEnd(s) ==
    CHOOSE e \in s..Len(data) :
        /\ \A k \in s..e : IsFailureRow(k)
        /\ e = Len(data) \/ ~IsFailureRow(e + 1)

\* first row of the n-th run
NthRunStart(n) ==
    CHOOSE s \in RunStarts : Cardinality({t \in RunStarts : t <= s}) = n

Returned == pc = "done" /\ Resolvable

\* C1: when processLogData has returned for resolvable headers, the number
\* of blocks it emitted equals the number of maximal runs of consecutive
\* failure rows.
C1_BlockCountIsRunCount ==
    Returned => Len(logData) = Cardinality(RunStarts)

C1_Witness ==
    Returned /\ Cardinality(RunStarts) = 2 /\ Len(logData) = 2

\* C2: the i-th block is the block of the i-th run: startTime and date are
\* those of the run's first row, endTime is the time of its last row, and a
\* run of one row has startTime = endTime.
C2_BlockFieldsFollowRun ==
    Returned =>
        \A n \in 1..Cardinality(RunStarts) :
            /\ n <= Len(logData)
            /\ LET s == NthRunStart(n)
                   e == RunEnd(s)
               IN  /\ logData[n].startTime = TimeOfRow(s)
                   /\ logData[n].endTime = TimeOfRow(e)
                   /\ logData[n].date = DateOfRow(s)
                   /\ s = e => logData[n].startTime = logData[n].endTime

C2_Witness ==
    /\ Returned
    /\ Len(data) = 3
    /\ ~IsFailureRow(1)
    /\ Len(logData) = 1
    /\ logData[1].startTime # logData[1].endTime

\* C3: if the rows end inside a failure run, the last block and only the
\* last block is labelled "Failure Block (No trailing OK)"; otherwise no
\* block carries that label. Every other block is labelled "Failure Block".
C3_NoTrailingOKOnlyLast ==
    Returned =>
        LET n == Len(logData)
            endsInRun == Len(data) > 0 /\ IsFailureRow(Len(data))
        IN  /\ endsInRun => n >= 1 /\ logData[n].status = LabelNoTrailingOK
            /\ \A i \in 1..n :
                  (i < n \/ ~endsInRun) => logData[i].status = LabelBlock

C3_Witness ==
    /\ Returned
    /\ Len(logData) = 2
    /\ logData[1].status = LabelBlock
    /\ logData[2].status = LabelNoTrailingOK

\* C4: for resolvable headers the emitted block sequence is empty exactly
\* when no row is a failure row.
C4_EmptyIffNoFailureRow ==
    Returned => (logData = <<>> <=> \A i \in 1..Len(data) : ~IsFailureRow(i))

C4_Witness ==
    /\ Returned
    /\ Len(data) >= 2
    /\ logData = <<>>
    /\ \A i \in 1..Len(data) : ~IsFailureRow(i)

(***************************************************************************)
(* The component, as the properties below speak of it                      *)
(***************************************************************************)
\* the messages of lines 61 and 69
ParseErrorMessages ==
    {MsgParseFailed} \cup
    {MsgParseErrorPrefix \o f.errors[1].message :
        f \in {g \in Files : Len(g.errors) > 0}}

ReportedMissingColumns == errorMessage = MsgMissingColumns
ReportedParseError == errorMessage \in ParseErrorMessages
ReportedNoFailures == errorMessage = MsgNoFailures

\* the text "No failure blocks found in the uploaded file." is on screen
EmptyResultVisible == ReportedNoFailures \/ emptyResultParagraphShown

\* C5: once a newer tokenization has been started, neither the displayed
\* blocks nor the reported message are those written by the callback of an
\* older, superseded tokenization.
C5_SupersededResultDiscarded ==
    /\ logDataGen \in {0, latestGen}
    /\ errorGen \in {0, latestGen}

\* C6: with a header that cannot be resolved the row loop is never entered,
\* the block list is set to empty and the missing-columns message is set;
\* a call that ran the loop never leaves that message.
C6_MissingColumnsSkipsSegmentation ==
    /\ pc \in {"forEach", "update"} => Resolvable
    /\ (pc = "done" /\ ~Resolvable) =>
          /\ rowIdx = 1
          /\ processedFailureBlocks = <<>>
          /\ currentBlockStartTime = null
          /\ logData = <<>>
          /\ errorMessage = MsgMissingColumns
    /\ (pc = "done" /\ Resolvable) => errorMessage \in {"", MsgNoFailures}

C6_Witness ==
    /\ pc = "done"
    /\ dateIndex # -1
    /\ timeIndex # -1
    /\ statusIndex = -1
    /\ Len(data) = 1
    /\ errorMessage = MsgMissingColumns

\* C7: the text "No failure blocks found" is on screen exactly when the
\* latest upload event started a tokenization that has called back, was
\* segmented and yielded zero blocks.
C7_EmptyResultOnlyAfterZeroBlocks ==
    EmptyResultVisible <=> (lastAttempt # 0 /\ outcome = "zero")

C9_TokenizerErrorLeavesEmptyList ==
    [][\A t \in inFlight :
          (\/ papaComplete(t) /\ Len(FileNamed(t.file).errors) > 0
           \/ papaError(t))
          => /\ logDataGen' # t.gen
             /\ errorMessage' \in ParseErrorMessages
             /\ logData' = <<>>]_vars

\* the spellings among the generated headers that read date, time, status
DateSpellings ==
    { <<"d","a","t","e">>, <<" ","D","a","t","e"," ">>, <<"D","A","T","E">>,
      <<"D","a","t","e">>, <<"D","A","T","E"," ">> }
TimeSpellings ==
    { <<"t","i","m","e">>, <<"T","i","m","e"," ">>, <<"T","i","m","e">> }
StatusSpellings ==
    { <<"s","t","a","t","u","s">>, <<" ","S","T","A","T","U","S">>,
      <<"S","t","a","t","u","s">> }

\* 0-based position of the first header spelled as in S, -1 without one
FirstSpelled(S) ==
    IF \E i \in 1..Len(headers) : headers[i] \in S
    THEN (CHOOSE i \in 1..Len(headers) :
              /\ headers[i] \in S
              /\ \A j \in 1..(i - 1) : headers[j] \notin S) - 1
    ELSE -1

\* C10: for each of date, time and status the resolved index is that of
\* the first header spelling the name in any case and with any surrounding
\* whitespace, and -1 exactly when there is none; for every header row the
\* result is an index of the row or -1.
C10_ColumnResolution ==
    pc \notin {"resolve", "idle"} =>
        /\ dateIndex = FirstSpelled(DateSpellings)
        /\ timeIndex = FirstSpelled(TimeSpellings)
        /\ statusIndex = FirstSpelled(StatusSpellings)
        /\ {dateIndex, timeIndex, statusIndex} \subseteq -1..(Len(headers) - 1)

C10_Witness ==
    /\ pc = "validate"
    /\ headers = << <<"i","d">>, <<" ","D","a","t","e"," ">>,
                    <<"D","A","T","E">> >>
    /\ dateIndex = 1
    /\ timeIndex = -1

(***************************************************************************)
(* The export                                                              *)
(***************************************************************************)
\* C11: a download hands Papa.unparse one more row than there are blocks:
\* first the header Status, date, Start Time, End Time, then for the i-th
\* block the row of its status, date, startTime and endTime, in order; the
\* block list is left as it was.
C11_ExportProjection ==
    [][HandleDownloadCsv =>
          /\ Len(csvData') = Len(logData) + 1
          /\ csvData'[1] = <<"Status", "date", "Start Time", "End Time">>
          /\ \A i \in 1..Len(logData) :
                csvData'[i + 1] = <<logData[i].status, logData[i].date,
                                    logData[i].startTime, logData[i].endTime>>
          /\ logData' = logData]_vars

C11_Witness ==
    /\ Len(csvData) = 3
    /\ Len(logData) = 2
    /\ csvData[2] # csvData[3]
    /\ csvData[2][1] = LabelBlock
    /\ csvData[3][1] = LabelNoTrailingOK
    /\ csvData[2][3] = logData[1].startTime

(***************************************************************************)
(* Two invocations on the same rows                                        *)
(***************************************************************************)
\* C12: a second call of processLogData on the same rows and headers passes
\* setLogData a block list equal to that of the first call, whatever the
\* first call and the events in between have left.
C12_SameRowsSameBlocks ==
    (pc = "done" /\ calls = 2) => logData = firstResult.logData

C12_Witness ==
    /\ pc = "done"
    /\ calls = 2
    /\ Len(logData) = 2
    /\ logData = firstResult.logData
    /\ logData[1] # logData[2]

(***************************************************************************)
(* The pass, row by row                                                    *)
(***************************************************************************)
\* the cell of row i under the resolved header at 0-based index idx is
\* missing or empty
CellAbsent(i, idx) ==
    LET key == headerAt(headers, idx)
    IN  key \notin DOMAIN data[i] \/ data[i][key] = <<>>

BlockOpen == currentBlockStartTime # null

\* C13: a row is treated as a failure row exactly when its status reads
\* "failure" in any case and with any surrounding whitespace; a row whose
\* status is missing or empty finalizes the open block, or changes nothing
\* when none is open; a failure row without a time or date carries "-".
C13_RowClassification ==
    [][ProcessRow =>
          /\ IsFailureRow(rowIdx) <=> currentBlockStartTime' # null
          /\ CellAbsent(rowIdx, statusIndex) =>
                IF BlockOpen
                THEN /\ processedFailureBlocks' =
                            Append(processedFailureBlocks,
                                   [status |-> LabelBlock,
                                    date |-> currentDate,
                                    startTime |-> currentBlockStartTime,
                                    endTime |-> currentBlockEndTime])
                     /\ currentBlockStartTime' = null
                     /\ currentBlockEndTime' = null
                     /\ currentDate' = null
                ELSE UNCHANGED <<processedFailureBlocks,
                                 currentBlockStartTime, currentBlockEndTime,
                                 currentDate>>
          /\ (IsFailureRow(rowIdx) /\ CellAbsent(rowIdx, timeIndex)) =>
                /\ currentBlockEndTime' = <<"-">>
                /\ ~BlockOpen => currentBlockStartTime' = <<"-">>
          /\ (IsFailureRow(rowIdx) /\ CellAbsent(rowIdx, dateIndex)
                /\ ~BlockOpen) => currentDate' = <<"-">>
      ]_vars

C13_Witness ==
    /\ pc = "done"
    /\ Resolvable
    /\ Len(data) = 3
    /\ IsFailureRow(1) /\ CellAbsent(1, timeIndex)
    /\ data[2] = <<>>
    /\ IsFailureRow(3) /\ CellAbsent(3, dateIndex)
    /\ Len(logData) = 2
    /\ logData[1].startTime = <<"-">>
    /\ logData[2].date = <<"-">>

\* the label of the block of the n-th run, from the statuses alone
LabelOfRun(n) ==
    IF RunEnd(NthRunStart(n)) = Len(data) THEN LabelNoTrailingOK
    ELSE LabelBlock

\* C14: the number of blocks and the label at each position are determined
\* by which rows are failure rows, so two row sequences with the same
\* statuses get the same boundaries whatever their dates and times are.
C14_BoundariesFromStatusesOnly ==
    Returned =>
        [i \in 1..Len(logData) |-> logData[i].status] =
            [n \in 1..Cardinality(RunStarts) |-> LabelOfRun(n)]

C14_Witness ==
    /\ Returned
    /\ Len(data) = 3
    /\ \A i \in 1..3 : IsFailureRow(i)
    /\ TimeOfRow(1) = TimeOfRow(2)
    /\ TimeOfRow(3) = <<"-">>
    /\ Len(logData) = 1

\* C15: during a pass the output only grows at its end: every step leaves
\* the blocks already pushed in place and unchanged, and a failure row that
\* follows a pushed block opens a new block with its own time and date.
C15_OutputAppendOnly ==
    [][pc # "done" =>
          /\ Len(processedFailureBlocks') >= Len(processedFailureBlocks)
          /\ SubSeq(processedFailureBlocks', 1, Len(processedFailureBlocks))
                = processedFailureBlocks
          /\ (ProcessRow /\ IsFailureRow(rowIdx) /\ ~BlockOpen) =>
                /\ processedFailureBlocks' = processedFailureBlocks
                /\ currentBlockStartTime' = TimeOfRow(rowIdx)
                /\ currentDate' = DateOfRow(rowIdx)
      ]_vars

C15_Witness ==
    /\ pc = "forEach"
    /\ rowIdx = 4
    /\ IsFailureRow(1)
    /\ ~IsFailureRow(2)
    /\ IsFailureRow(3)
    /\ Len(processedFailureBlocks) = 1
    /\ BlockOpen
    /\ currentBlockStartTime = TimeOfRow(3)

\* C16: before the first row the three carried fields are null; after every
\* row they are all null or all set, and set exactly when the row just
\* processed was a failure row.
C16_CarriedFieldsTogether ==
    pc # "idle" =>
        /\ \/ /\ currentBlockStartTime = null
              /\ currentBlockEndTime = null
              /\ currentDate = null
           \/ /\ currentBlockStartTime # null
              /\ currentBlockEndTime # null
              /\ currentDate # null
        /\ rowIdx = 1 => currentBlockStartTime = null
        /\ (rowIdx > 1 /\ rowIdx <= Len(data) + 1) =>
              (BlockOpen <=> IsFailureRow(rowIdx - 1))

C16_Witness ==
    /\ pc = "forEach"
    /\ rowIdx = 3
    /\ IsFailureRow(1)
    /\ IsFailureRow(2)
    /\ currentBlockStartTime # currentBlockEndTime
    /\ currentDate = DateOfRow(1)
    /\ DateOfRow(1) # DateOfRow(2)

(***************************************************************************)
(* The component over uploads, callbacks and downloads                     *)
(***************************************************************************)
\* C17: an error message and a non-empty block list are never displayed
\* together.
C17_ErrorAndBlocksExclusive ==
    ~(errorMessage # "" /\ Len(logData) > 0)

\* C18: a file selected before the library is loaded starts no
\* tokenization, sets the still-loading message and leaves the block list
\* empty; Papa.parse and Papa.unparse are only called while papaLoaded.
C18_LibraryUsedOnlyWhenLoaded ==
    [][/\ ((\E file \in Files : handleFileUpload(file)) /\ ~papaLoaded) =>
              /\ inFlight' = inFlight
              /\ latestGen' = latestGen
              /\ errorMessage' = MsgStillLoading
              /\ logData' = <<>>
       /\ (inFlight' \ inFlight # {}) => papaLoaded
       /\ HandleDownloadCsv => papaLoaded
      ]_vars

C18_Witness ==
    /\ ~papaLoaded
    /\ script \in {"loading", "failed"}
    /\ errorMessage = MsgStillLoading
    /\ inFlight = {}
    /\ latestGen = 0
    /\ logData = <<>>

\* C19: for rows with resolvable headers and no failure row, what a call
\* reports (block list and message) is the same when the file is the first
\* one uploaded and when it is uploaded after another file.
C19_OutcomeIndependentOfEarlierUpload ==
    (pc = "done" /\ calls = 2 /\ Resolvable
        /\ \A i \in 1..Len(data) : ~IsFailureRow(i)) =>
        /\ logData = firstResult.logData
        /\ errorMessage = firstResult.errorMessage

====
